---- MODULE Spec2Model ----
(***************************************************************************)
(* A model of the Redux Toolkit example application: the store built by   *)
(* configureStore from the counters slice and the posts slice, the two    *)
(* counter case reducers, the three lifecycle case reducers of the posts  *)
(* slice, and the fetchPosts async thunk dispatched when Posts mounts.    *)
(***************************************************************************)
EXTENDS Integers, Sequences, FiniteSets, TLC

VARIABLES
    currentState,   \* the store's snapshot: [counters, posts]
    thunks,         \* one record per fetchPosts invocation, indexed by requestId:
                    \* where its payload creator stands, how often it called fetch,
                    \* and what it returned or threw
    log,            \* the lifecycle actions that reached the reducers, in dispatch order
    lastAction,     \* the action of the most recent dispatch
    prevState,      \* the snapshot that dispatch started from
    thrown,         \* what the most recent dispatch raised to its caller
    isDispatching,  \* the store's flag: a reducer is running
    listeners,      \* the subscribed listeners, in registration order
    listenerIdCounter, \* how many listeners were ever registered
    unsubscribed,   \* the listeners whose unsubscribe handle was invoked
    fanOut,         \* the notification pass of the most recent dispatch
    reentry,        \* the dispatch issued while the most recent dispatch was reducing
    clicks          \* increments minus decrements issued through the UI

\* what a dispatch writes
storeVars == <<currentState, log, lastAction, prevState, thrown, isDispatching,
               listeners, listenerIdCounter, unsubscribed, fanOut, reentry>>

vars == <<currentState, thunks, log, lastAction, prevState, thrown, isDispatching,
          listeners, listenerIdCounter, unsubscribed, fanOut, reentry, clicks>>

---------------------------------------------------------------------------
(* Bounds of the model *)

\* how many times fetchPosts is invoked (Posts mounts)
MaxInvocations == 2
\* counters are driven while every value stays within -MaxValue..MaxValue
MaxValue == 1
\* ids 1..MaxId are dispatched; the ids above those of initialState are missing ones
MaxId == 3
\* how many listeners are registered over a run
MaxListeners == 3

\* what the fetch of the remote JSON can yield
PostA == [id |-> 1, title |-> "a"]
PostB == [id |-> 2, title |-> "b"]
Payloads == {<< >>, <<PostA>>, <<PostB, PostA>>}
\* the messages of the errors fetch() and response.json() reject with
FetchMessages == {"Failed to fetch"}
JsonMessages == {"Unexpected token"}

---------------------------------------------------------------------------
(* counterSlice *)

counterInitialState == << [id |-> 1, value |-> 0], [id |-> 2, value |-> 0] >>

\* Array.prototype.findIndex with c => c.id === id: the first 0-based index, or -1
findIndex(state, id) ==
    IF \E i \in 1..Len(state) : state[i].id = id
    THEN (CHOOSE i \in 1..Len(state) :
              /\ state[i].id = id
              /\ \A j \in 1..(i - 1) : state[j].id # id) - 1
    ELSE -1

\* the outcome of running a case reducer: the next region, or the error it raised
Returned(state) == [threw |-> "none", state |-> state]
Threw(err, state) == [threw |-> err, state |-> state]

\* a slip: the id is ignored and every counter is incremented
incrementAll(state, action) ==
    Returned([i \in 1..Len(state) |-> [state[i] EXCEPT !.value = @ + 1]])

\* a slip: a lower bound of 0 on the value
decrementClamped(state, action) ==
    LET counterIndex == findIndex(state, action.payload.id)
    IN  IF counterIndex < 0 \/ counterIndex >= Len(state)
        THEN Threw("TypeError", state)
        ELSE Returned([state EXCEPT ![counterIndex + 1].value =
                                        IF @ - 1 < 0 THEN 0 ELSE @ - 1])

\* a slip: the id of the counter found is incremented, not its value
incrementBumpsId(state, action) ==
    LET counterIndex == findIndex(state, action.payload.id)
    IN  IF counterIndex < 0 \/ counterIndex >= Len(state)
        THEN Threw("TypeError", state)
        ELSE Returned([state EXCEPT ![counterIndex + 1].id = @ + 1])

\* state[counterIndex].value++ : state[-1] is undefined, and reading .value of it
\* raises a TypeError
increment(state, action) ==
    LET counterIndex == findIndex(state, action.payload.id)
    IN  IF counterIndex < 0 \/ counterIndex >= Len(state)
        THEN Threw("TypeError", state)
        ELSE Returned([state EXCEPT ![counterIndex + 1].value = @ + 1])

decrement(state, action) ==
    LET counterIndex == findIndex(state, action.payload.id)
    IN  IF counterIndex < 0 \/ counterIndex >= Len(state)
        THEN Threw("TypeError", state)
        ELSE Returned([state EXCEPT ![counterIndex + 1].value = @ - 1])

\* a slip: a default case that returns the initial state
counterReducerDefaultResets(state, action) ==
    CASE action.type = "counters/increment" -> increment(state, action)
      [] action.type = "counters/decrement" -> decrement(state, action)
      [] OTHER -> Returned(counterInitialState)

\* the slice reducer: the case reducer of the action's type, or the region as it is
counterReducer(state, action) ==
    CASE action.type = "counters/increment" -> increment(state, action)
      [] action.type = "counters/decrement" -> decrement(state, action)
      [] OTHER -> Returned(state)

---------------------------------------------------------------------------
(* postSlice *)

postInitialState ==
    [posts |-> << >>, isLoading |-> FALSE, isError |-> FALSE, error |-> ""]

\* a slip: the list is emptied while the next fetch is under way
pendingCaseClearsPosts(state, action) ==
    [state EXCEPT !.isLoading = TRUE, !.isError = FALSE, !.error = "",
                  !.posts = << >>]

\* a slip: the message of the last failure is kept
pendingCaseKeepsError(state, action) ==
    [state EXCEPT !.isLoading = TRUE, !.isError = FALSE]

pendingCase(state, action) ==
    [state EXCEPT !.isLoading = TRUE, !.isError = FALSE, !.error = ""]

\* a slip: the payload is appended to the list already there
fulfilledCaseAppends(state, action) ==
    [state EXCEPT !.isLoading = FALSE, !.posts = @ \o action.payload]

\* a slip: a list already fetched is kept and the later response dropped
fulfilledCaseKeepsFirst(state, action) ==
    IF state.posts # << >>
    THEN [state EXCEPT !.isLoading = FALSE]
    ELSE [state EXCEPT !.isLoading = FALSE, !.posts = action.payload]

fulfilledCase(state, action) ==
    [state EXCEPT !.isLoading = FALSE, !.posts = action.payload]

\* a slip: the list fetched before is cleared on failure
rejectedCaseClearsPosts(state, action) ==
    [state EXCEPT !.isLoading = FALSE, !.isError = TRUE,
                  !.error = action.error.message, !.posts = << >>]

\* a slip: the loading flag is left as it was when a request fails
rejectedCaseKeepsLoading(state, action) ==
    [state EXCEPT !.isError = TRUE, !.error = action.error.message]

rejectedCase(state, action) ==
    [state EXCEPT !.isLoading = FALSE, !.isError = TRUE,
                  !.error = action.error.message]

\* a slip: the pending case resets the whole region
postReducerPendingResets(state, action) ==
    CASE action.type = "posts/fetchPosts/pending" ->
            Returned([posts |-> << >>, isLoading |-> TRUE, isError |-> FALSE,
                      error |-> ""])
      [] action.type = "posts/fetchPosts/fulfilled" ->
            Returned(fulfilledCase(state, action))
      [] action.type = "posts/fetchPosts/rejected" ->
            Returned(rejectedCase(state, action))
      [] OTHER -> Returned(state)

postReducer(state, action) ==
    CASE action.type = "posts/fetchPosts/pending" ->
            Returned(pendingCase(state, action))
      [] action.type = "posts/fetchPosts/fulfilled" ->
            Returned(fulfilledCase(state, action))
      [] action.type = "posts/fetchPosts/rejected" ->
            Returned(rejectedCase(state, action))
      [] OTHER -> Returned(state)

---------------------------------------------------------------------------
(* store *)

\* a slip: a counter action rebuilds the snapshot from the counters alone
rootReducerDropsPosts(state, action) ==
    LET c == counterReducer(state.counters, action)
        p == postReducer(state.posts, action)
    IN  IF c.threw # "none" THEN Threw(c.threw, state)
        ELSE IF p.threw # "none" THEN Threw(p.threw, state)
        ELSE Returned([counters |-> c.state,
                       posts |-> IF c.state # state.counters THEN postInitialState
                                 ELSE p.state])

\* the reducer map given to configureStore: every region's reducer sees every
\* action; an error raised by one of them ends the reduction
rootReducer(state, action) ==
    LET c == counterReducer(state.counters, action)
        p == postReducer(state.posts, action)
    IN  IF c.threw # "none" THEN Threw(c.threw, state)
        ELSE IF p.threw # "none" THEN Threw(p.threw, state)
        ELSE Returned([counters |-> c.state, posts |-> p.state])

IsLifecycle(action) ==
    action.type \in {"posts/fetchPosts/pending", "posts/fetchPosts/fulfilled",
                     "posts/fetchPosts/rejected"}

InvalidOperation == "Error: Reducers may not dispatch actions."

\* the reduction of one dispatch: refused while a reducer is running
dispatchOutcome(dispatching, state, action) ==
    IF dispatching THEN Threw(InvalidOperation, state)
    ELSE rootReducer(state, action)

Range(seq) == {seq[i] : i \in 1..Len(seq)}
Without(seq, l) == SelectSeq(seq, LAMBDA x : x # l)

\* a slip: the pass walks the live list, which an unsubscribe shortens under it
RECURSIVE forEachLive(_, _, _, _, _, _)
forEachLive(snapshot, i, invoked, next, who, target) ==
    IF i > Len(next) THEN [invoked |-> invoked, listeners |-> next]
    ELSE forEachLive(snapshot, i + 1, Append(invoked, next[i]),
                     IF next[i] = who THEN Without(next, target) ELSE next,
                     who, target)

\* the notification pass: every listener of the list taken when the pass starts
\* is invoked, in order; listener who, when invoked, unsubscribes target, which
\* changes the list of the next pass only
RECURSIVE forEach(_, _, _, _, _, _)
forEach(snapshot, i, invoked, next, who, target) ==
    IF i > Len(snapshot) THEN [invoked |-> invoked, listeners |-> next]
    ELSE forEach(snapshot, i + 1, Append(invoked, snapshot[i]),
                 IF snapshot[i] = who THEN Without(next, target) ELSE next,
                 who, target)

NoFanOut == [atStart |-> << >>, invoked |-> << >>, goneAtStart |-> {},
             during |-> {}]
NoReentry == [attempted |-> FALSE, threw |-> "none"]

\* the listeners' part of a dispatch: none is invoked when the reduction raised
Notify(r) ==
    IF r.threw # "none"
    THEN /\ fanOut' = [atStart |-> listeners, invoked |-> << >>,
                       goneAtStart |-> unsubscribed, during |-> {}]
         /\ UNCHANGED <<listeners, unsubscribed>>
    ELSE \E who \in Range(listeners) \cup {0}, target \in Range(listeners) \cup {0} :
            /\ (who = 0) <=> (target = 0)
            /\ LET pass == forEach(listeners, 1, << >>, listeners, who, target)
               IN  /\ fanOut' = [atStart |-> listeners, invoked |-> pass.invoked,
                                 goneAtStart |-> unsubscribed,
                                 during |-> Range(listeners) \ Range(pass.listeners)]
                   /\ listeners' = pass.listeners
                   /\ unsubscribed' = unsubscribed \cup
                          (Range(listeners) \ Range(pass.listeners))

\* a slip: the reducer's error is caught and dropped
DispatchSwallows(action) ==
    LET r == dispatchOutcome(isDispatching, currentState, action)
    IN  /\ currentState' = IF r.threw = "none" THEN r.state ELSE currentState
        /\ thrown' = "none"
        /\ lastAction' = action
        /\ prevState' = currentState
        /\ log' = IF IsLifecycle(action) /\ r.threw # InvalidOperation
                  THEN Append(log, action) ELSE log
        /\ isDispatching' = isDispatching
        /\ reentry' = NoReentry
        /\ Notify(r)
        /\ UNCHANGED listenerIdCounter

\* store.dispatch(action): the snapshot is replaced by the root reducer's result
\* and the listeners are notified; when the reducer raises, the error reaches
\* the caller and the snapshot stays
Dispatch(action) ==
    LET r == dispatchOutcome(isDispatching, currentState, action)
    IN  /\ currentState' = IF r.threw = "none" THEN r.state ELSE currentState
        /\ thrown' = r.threw
        /\ lastAction' = action
        /\ prevState' = currentState
        /\ log' = IF IsLifecycle(action) /\ r.threw # InvalidOperation
                  THEN Append(log, action) ELSE log
        /\ isDispatching' = isDispatching
        /\ reentry' = NoReentry
        /\ Notify(r)
        /\ UNCHANGED listenerIdCounter

Init ==
    /\ currentState = [counters |-> counterInitialState, posts |-> postInitialState]
    /\ thunks = << >>
    /\ log = << >>
    /\ lastAction = [type |-> "@@redux/INIT"]
    /\ prevState = [counters |-> counterInitialState, posts |-> postInitialState]
    /\ thrown = "none"
    /\ isDispatching = FALSE
    /\ listeners = << >>
    /\ listenerIdCounter = 0
    /\ unsubscribed = {}
    /\ fanOut = NoFanOut
    /\ reentry = NoReentry
    /\ clicks = 0

InRange(counters) == \A i \in 1..Len(counters) :
    counters[i].value \in (0 - MaxValue)..MaxValue

\* dispatch(increment({id})) and dispatch(decrement({id}))
DispatchIncrement ==
    \E id \in 1..MaxId :
        LET action == [type |-> "counters/increment", payload |-> [id |-> id]]
        IN  /\ InRange(rootReducer(currentState, action).state.counters)
            /\ Dispatch(action)
            /\ UNCHANGED <<thunks, clicks>>

DispatchDecrement ==
    \E id \in 1..MaxId :
        LET action == [type |-> "counters/decrement", payload |-> [id |-> id]]
        IN  /\ InRange(rootReducer(currentState, action).state.counters)
            /\ Dispatch(action)
            /\ UNCHANGED <<thunks, clicks>>

---------------------------------------------------------------------------
(* App *)

\* counters.reduce((total, counter) => total + counter.value, 0)
RECURSIVE reduceTotal(_, _, _)
reduceTotal(counters, i, total) ==
    IF i > Len(counters) THEN total
    ELSE reduceTotal(counters, i + 1, total + counters[i].value)

\* a slip: reduce without its initial value, the first counter is not added
totalCountNoInitial(counters) == reduceTotal(counters, 2, 0)

totalCount(counters) == reduceTotal(counters, 1, 0)

\* a slip: the handler is given the array index of the counter, not its id
handleIncrementByIndex ==
    \E i \in 1..Len(currentState.counters) :
        LET action == [type |-> "counters/increment", payload |-> [id |-> i - 1]]
        IN  /\ InRange(rootReducer(currentState, action).state.counters)
            /\ Dispatch(action)
            /\ clicks' = clicks + 1
            /\ UNCHANGED thunks

\* onIncrement of the Counter rendered for a counter of the snapshot:
\* handleIncrement(counter.id)
handleIncrement ==
    \E i \in 1..Len(currentState.counters) :
        LET action == [type |-> "counters/increment",
                       payload |-> [id |-> currentState.counters[i].id]]
        IN  /\ InRange(rootReducer(currentState, action).state.counters)
            /\ Dispatch(action)
            /\ clicks' = clicks + 1
            /\ UNCHANGED thunks

\* onDecrement: handleDecrement(counter.id)
handleDecrement ==
    \E i \in 1..Len(currentState.counters) :
        LET action == [type |-> "counters/decrement",
                       payload |-> [id |-> currentState.counters[i].id]]
        IN  /\ InRange(rootReducer(currentState, action).state.counters)
            /\ Dispatch(action)
            /\ clicks' = clicks - 1
            /\ UNCHANGED thunks

---------------------------------------------------------------------------
(* store interface *)

\* store.subscribe(listener): the listener joins the end of the list
Subscribe ==
    /\ listenerIdCounter < MaxListeners
    /\ ~isDispatching
    /\ listenerIdCounter' = listenerIdCounter + 1
    /\ listeners' = Append(listeners, listenerIdCounter + 1)
    /\ UNCHANGED <<currentState, log, lastAction, prevState, thrown, isDispatching,
                   unsubscribed, fanOut, reentry, thunks, clicks>>

\* the handle subscribe returned, invoked between dispatches: that listener leaves
Unsubscribe ==
    \E l \in Range(listeners) :
        /\ ~isDispatching
        /\ listeners' = Without(listeners, l)
        /\ unsubscribed' = unsubscribed \cup {l}
        /\ UNCHANGED <<currentState, log, lastAction, prevState, thrown,
                       isDispatching, listenerIdCounter, fanOut, reentry,
                       thunks, clicks>>

\* the actions a running reducer is made to dispatch
ReentrantActions ==
    { [type |-> "counters/increment", payload |-> [id |-> 1]],
      [type |-> "counters/decrement", payload |-> [id |-> 2]] }

\* a slip: no guard, the inner action is reduced like any other
dispatchInnerUnguarded(state, action) == rootReducer(state, action)

\* the dispatch issued while the root reducer is running: isDispatching is set
dispatchInner(state, action) == dispatchOutcome(TRUE, state, action)

\* dispatch of an increment during whose reduction dispatch is called again with
\* inner; the reducer ends with the error of the inner call unless that is caught
DispatchReentrant ==
    \E id \in 1..MaxId, inner \in ReentrantActions, caught \in BOOLEAN :
        LET outer == [type |-> "counters/increment", payload |-> [id |-> id]]
            in == dispatchInner(currentState, inner)
            r == IF in.threw # "none" /\ ~caught
                 THEN Threw(in.threw, currentState)
                 ELSE dispatchOutcome(isDispatching, currentState, outer)
        IN  /\ InRange(r.state.counters)
            /\ currentState' = IF r.threw = "none" THEN r.state ELSE currentState
            /\ thrown' = r.threw
            /\ lastAction' = outer
            /\ prevState' = currentState
            /\ isDispatching' = isDispatching
            /\ reentry' = [attempted |-> TRUE, threw |-> in.threw]
            /\ Notify(r)
            /\ UNCHANGED <<log, listenerIdCounter, thunks, clicks>>

\* actions of a type no case reducer is registered for
UnknownActions ==
    { [type |-> "counter/increment", payload |-> [id |-> 1]],
      [type |-> "posts/fetchPosts", payload |-> [id |-> 2]] }

DispatchUnknown ==
    \E action \in UnknownActions :
        /\ Dispatch(action)
        /\ UNCHANGED <<thunks, clicks>>

---------------------------------------------------------------------------
(* fetchPosts *)

pending(requestId) ==
    [type |-> "posts/fetchPosts/pending", meta |-> [requestId |-> requestId]]
fulfilled(payload, requestId) ==
    [type |-> "posts/fetchPosts/fulfilled", payload |-> payload,
     meta |-> [requestId |-> requestId]]
rejected(message, requestId) ==
    [type |-> "posts/fetchPosts/rejected", error |-> [message |-> message],
     meta |-> [requestId |-> requestId]]

\* a slip: the payload creator is started without the pending action
fetchPostsNoPending ==
    /\ Len(thunks) < MaxInvocations
    /\ thunks' = Append(thunks, [pc |-> "awaitFetch", fetchCalls |-> 1,
                                 outcome |-> "none", value |-> << >>,
                                 message |-> ""])
    /\ UNCHANGED <<storeVars, clicks>>

\* dispatch(fetchPosts()): pending is dispatched, then the payload creator runs
\* up to its first await, the one call of fetch
fetchPosts ==
    /\ Len(thunks) < MaxInvocations
    /\ LET requestId == Len(thunks) + 1
       IN  /\ Dispatch(pending(requestId))
           /\ thunks' = Append(thunks, [pc |-> "awaitFetch", fetchCalls |-> 1,
                                        outcome |-> "none", value |-> << >>,
                                        message |-> ""])
           /\ UNCHANGED clicks

\* fetch() resolves with a response: the payload creator goes on to response.json()
FetchResolved ==
    \E i \in 1..Len(thunks) :
        /\ thunks[i].pc = "awaitFetch"
        /\ thunks' = [thunks EXCEPT ![i].pc = "awaitJson"]
        /\ UNCHANGED <<storeVars, clicks>>

\* fetch() rejects: the payload creator throws and the thunk dispatches rejected
FetchRejected ==
    \E i \in 1..Len(thunks), m \in FetchMessages :
        /\ thunks[i].pc = "awaitFetch"
        /\ Dispatch(rejected(m, i))
        /\ thunks' = [thunks EXCEPT ![i].pc = "done", ![i].outcome = "threw",
                                    ![i].message = m]
        /\ UNCHANGED clicks

\* response.json() resolves: the payload creator returns data, dispatched as fulfilled
JsonResolved ==
    \E i \in 1..Len(thunks), data \in Payloads :
        /\ thunks[i].pc = "awaitJson"
        /\ Dispatch(fulfilled(data, i))
        /\ thunks' = [thunks EXCEPT ![i].pc = "done", ![i].outcome = "returned",
                                    ![i].value = data]
        /\ UNCHANGED clicks

\* a slip: a failure of response.json() ends the invocation without a completion
JsonRejectedSwallowed ==
    \E i \in 1..Len(thunks), m \in JsonMessages :
        /\ thunks[i].pc = "awaitJson"
        /\ thunks' = [thunks EXCEPT ![i].pc = "done", ![i].outcome = "threw",
                                    ![i].message = m]
        /\ UNCHANGED <<storeVars, clicks>>

\* response.json() rejects
JsonRejected ==
    \E i \in 1..Len(thunks), m \in JsonMessages :
        /\ thunks[i].pc = "awaitJson"
        /\ Dispatch(rejected(m, i))
        /\ thunks' = [thunks EXCEPT ![i].pc = "done", ![i].outcome = "threw",
                                    ![i].message = m]
        /\ UNCHANGED clicks

Next ==
    \/ DispatchIncrement
    \/ DispatchDecrement
    \/ DispatchUnknown
    \/ fetchPosts
    \/ FetchResolved
    \/ FetchRejected
    \/ JsonResolved
    \/ JsonRejected

Spec == Init /\ [][Next]_vars

\* the application: the store driven by App's handlers and by Posts mounting
UINext ==
    \/ handleIncrement
    \/ handleDecrement
    \/ fetchPosts
    \/ FetchResolved
    \/ FetchRejected
    \/ JsonResolved
    \/ JsonRejected

UISpec == Init /\ [][UINext]_vars

\* the store driven through its whole interface: dispatch, subscribe, unsubscribe
StoreNext ==
    \/ DispatchIncrement
    \/ DispatchDecrement
    \/ DispatchUnknown
    \/ DispatchReentrant
    \/ Subscribe
    \/ Unsubscribe

StoreSpec == Init /\ [][StoreNext]_vars

\* the Posts component alone: mounts start invocations, and the promises of
\* fetch() and response.json() settle one way or the other
PostsNext ==
    \/ fetchPosts
    \/ FetchResolved
    \/ FetchRejected
    \/ JsonResolved
    \/ JsonRejected

\* a promise awaited by the payload creator settles
Settle == FetchResolved \/ FetchRejected \/ JsonResolved \/ JsonRejected

\* every external fetch eventually succeeds or fails, and the continuation of
\* the payload creator is then run
PostsSpec == Init /\ [][PostsNext]_vars /\ WF_vars(Settle)

---------------------------------------------------------------------------
(* Properties *)

HasId(counters, id) == \E i \in 1..Len(counters) : counters[i].id = id

IsCounterAction(action) ==
    action.type \in {"counters/increment", "counters/decrement"}

\* C1: dispatching increment or decrement with an id that no counter of the
\* region has raises no error and leaves the whole snapshot unchanged.
C1_MissingIdIsNoOp ==
    (/\ IsCounterAction(lastAction)
     /\ ~HasId(prevState.counters, lastAction.payload.id))
    => (thrown = "none" /\ currentState = prevState)

\* the region r, with delta added to the value of the counter whose id is id
WithValueChanged(r, id, delta) ==
    [i \in 1..Len(r) |->
        IF r[i].id = id THEN [id |-> r[i].id, value |-> r[i].value + delta]
        ELSE r[i]]

\* C2: increment{id:k} on a region holding a counter k of value v yields the
\* same region except that counter k has value v+1: the other counters, the
\* order and the number of counters are as before.
C2_IncrementAddsOne ==
    (/\ lastAction.type = "counters/increment"
     /\ HasId(prevState.counters, lastAction.payload.id))
    => (/\ thrown = "none"
        /\ currentState.counters =
               WithValueChanged(prevState.counters, lastAction.payload.id, 1))

C2_Witness ==
    /\ lastAction.type = "counters/increment"
    /\ lastAction.payload.id = 2
    /\ prevState.counters[1].value = -1
    /\ prevState.counters[2].value = 0
    /\ currentState.counters[1].value = -1
    /\ currentState.counters[2].value = 1

\* C3: decrement{id:k} on a region holding a counter k of value v yields value
\* v-1 for it and leaves the others unchanged; nothing bounds the value from
\* below, so a counter at 0 or below goes negative.
C3_DecrementSubtractsOne ==
    (/\ lastAction.type = "counters/decrement"
     /\ HasId(prevState.counters, lastAction.payload.id))
    => (/\ thrown = "none"
        /\ currentState.counters =
               WithValueChanged(prevState.counters, lastAction.payload.id, -1))

C3_Witness ==
    /\ lastAction.type = "counters/decrement"
    /\ lastAction.payload.id = 1
    /\ prevState.counters[1].value = 0
    /\ currentState.counters[1].value = -1
    /\ currentState.counters[2] = prevState.counters[2]

\* C4: the status flags always match the most recent lifecycle action
\* processed, whatever the interleaving of overlapping invocations: after
\* pending isLoading and not isError, after fulfilled neither, after rejected
\* isError and not isLoading.
C4_StatusFollowsLastLifecycle ==
    log # << >> =>
        LET last == log[Len(log)]
            region == currentState.posts
        IN  /\ last.type = "posts/fetchPosts/pending"
                => (region.isLoading /\ ~region.isError)
            /\ last.type = "posts/fetchPosts/fulfilled"
                => (~region.isLoading /\ ~region.isError)
            /\ last.type = "posts/fetchPosts/rejected"
                => (~region.isLoading /\ region.isError)

\* C5: given that every rejection carries a non-empty message, the region
\* holds an error message exactly when isError is true.
C5_ErrorIffIsError ==
    (currentState.posts.error # "") <=> currentState.posts.isError

C5_Witness ==
    /\ lastAction.type = "posts/fetchPosts/rejected"
    /\ lastAction.error.message # ""
    /\ currentState.posts.isError
    /\ currentState.posts.error = lastAction.error.message

\* C6: from any region state, fulfilled with payload X leaves the region
\* succeeded (neither loading nor failed) with exactly X as its posts list.
C6_FulfilledSucceedsAndReplaces ==
    lastAction.type = "posts/fetchPosts/fulfilled" =>
        /\ ~currentState.posts.isLoading
        /\ ~currentState.posts.isError
        /\ currentState.posts.posts = lastAction.payload

\* C7: from any region state, rejected with message m leaves isLoading false,
\* isError true and error m, and the posts list as it was before the action.
C7_RejectedKeepsPosts ==
    lastAction.type = "posts/fetchPosts/rejected" =>
        /\ thrown = "none"
        /\ currentState.posts =
               [posts |-> prevState.posts.posts, isLoading |-> FALSE,
                isError |-> TRUE, error |-> lastAction.error.message]

C7_Witness ==
    /\ lastAction.type = "posts/fetchPosts/rejected"
    /\ prevState.posts.posts # << >>
    /\ prevState.posts.isLoading
    /\ currentState.posts.posts = prevState.posts.posts
    /\ currentState.posts.isError

\* C8: from any region state, the terminal ones included, pending leaves
\* isLoading true, isError false and error empty, and the posts list unchanged.
C8_PendingClearsErrorKeepsPosts ==
    lastAction.type = "posts/fetchPosts/pending" =>
        /\ thrown = "none"
        /\ currentState.posts =
               [posts |-> prevState.posts.posts, isLoading |-> TRUE,
                isError |-> FALSE, error |-> ""]

\* pending processed in the terminal state failed
C8_Witness ==
    /\ lastAction.type = "posts/fetchPosts/pending"
    /\ ~prevState.posts.isLoading
    /\ prevState.posts.isError
    /\ prevState.posts.error # ""
    /\ currentState.posts.isLoading
    /\ ~currentState.posts.isError
    /\ currentState.posts.error = ""
    /\ currentState.posts.posts = prevState.posts.posts

\* the lifecycle actions of invocation i, in the order they were dispatched
Mine(i) == SelectSeq(log, LAMBDA a : a.meta.requestId = i)

\* C9: every invocation dispatches pending first, calls fetch once, then
\* dispatches one of fulfilled (with what the payload creator returned) or
\* rejected (with the message of what it threw), and nothing after that.
C9_ThunkLifecycle ==
    /\ \A n \in 1..Len(log) : log[n].meta.requestId \in 1..Len(thunks)
    /\ \A i \in 1..Len(thunks) :
          LET mine == Mine(i)
          IN  /\ thunks[i].fetchCalls = 1
              /\ Len(mine) >= 1
              /\ mine[1].type = "posts/fetchPosts/pending"
              /\ thunks[i].pc # "done" => Len(mine) = 1
              /\ thunks[i].pc = "done" =>
                    /\ Len(mine) = 2
                    /\ thunks[i].outcome = "returned" =>
                          mine[2] = fulfilled(thunks[i].value, i)
                    /\ thunks[i].outcome = "threw" =>
                          mine[2] = rejected(thunks[i].message, i)
                    /\ thunks[i].outcome \in {"returned", "threw"}

C9_Witness ==
    /\ Len(thunks) = 2
    /\ thunks[1].pc = "done" /\ thunks[1].outcome = "returned"
    /\ thunks[2].pc = "done" /\ thunks[2].outcome = "threw"
    /\ Len(log) = 4

IsCompletion(action) ==
    action.type \in {"posts/fetchPosts/fulfilled", "posts/fetchPosts/rejected"}

\* C10: overlapping invocations are neither dropped nor coalesced (each has
\* its own pending and its own completion), and once none is in flight the
\* completion dispatched last decides the list: if it is fulfilled{X} the
\* posts list is X, whichever invocation started first.
C10_LastCompletionWins ==
    /\ \A i \in 1..Len(thunks) :
          /\ Len(SelectSeq(Mine(i), LAMBDA a : ~IsCompletion(a))) = 1
          /\ Len(SelectSeq(Mine(i), IsCompletion)) =
                 IF thunks[i].pc = "done" THEN 1 ELSE 0
    /\ (/\ log # << >>
        /\ \A i \in 1..Len(thunks) : thunks[i].pc = "done")
       => LET last == log[Len(log)]
          IN  /\ IsCompletion(last)
              /\ last.type = "posts/fetchPosts/fulfilled"
                    => currentState.posts.posts = last.payload

\* the invocation started first completes last and overwrites the newer response
C10_Witness ==
    /\ Len(log) = 4
    /\ log[1] = pending(1)
    /\ log[2] = pending(2)
    /\ log[3].type = "posts/fetchPosts/fulfilled"
    /\ log[3].meta.requestId = 2
    /\ log[4].type = "posts/fetchPosts/fulfilled"
    /\ log[4].meta.requestId = 1
    /\ log[3].payload # log[4].payload
    /\ currentState.posts.posts = log[4].payload

\* C11: when a reducer fails on a dispatched action, the failure reaches the
\* caller of dispatch, the snapshot afterwards is the one before the dispatch
\* in every region, and the store goes on accepting dispatches.
C11_FailurePropagatesSnapshotKept ==
    /\ rootReducer(prevState, lastAction).threw # "none" =>
          /\ thrown = rootReducer(prevState, lastAction).threw
          /\ currentState = prevState
    /\ thrown # "none" => currentState = prevState
    /\ ~isDispatching
    /\ thrown # InvalidOperation

\* the counter reducer fails on a missing id, both regions having moved before
C11_Witness ==
    /\ lastAction = [type |-> "counters/decrement", payload |-> [id |-> 3]]
    /\ thrown = "TypeError"
    /\ currentState = prevState
    /\ currentState.counters # counterInitialState
    /\ currentState.posts.posts # << >>

\* C12: an action whose type is none of the five the slices handle leaves the
\* snapshot as it was, in both regions, and raises no error.
C12_UnknownActionIsIdentity ==
    (~IsCounterAction(lastAction) /\ ~IsLifecycle(lastAction))
    => (thrown = "none" /\ currentState = prevState)

C12_Witness ==
    /\ lastAction.type = "counter/increment"
    /\ thrown = "none"
    /\ currentState = prevState
    /\ currentState.counters # counterInitialState
    /\ currentState.posts # postInitialState

\* C13: a counters action never changes the posts region, and a lifecycle
\* action of fetchPosts never changes the counters region.
C13_RegionsIndependent ==
    /\ IsCounterAction(lastAction) => currentState.posts = prevState.posts
    /\ IsLifecycle(lastAction) => currentState.counters = prevState.counters

\* an increment reduced while the posts region holds a fetched list and an error
C13_Witness ==
    /\ lastAction.type = "counters/increment"
    /\ currentState.counters # prevState.counters
    /\ currentState.posts = prevState.posts
    /\ currentState.posts.posts # << >>
    /\ currentState.posts.isError

\* C14: a dispatch that changes the snapshot invokes every listener that was
\* subscribed when it started exactly once, in registration order; a listener
\* unsubscribed before a dispatch is not invoked by it; an unsubscribe made
\* during the pass does not change whom that pass invokes.
C14_FanOutOncePerListenerInOrder ==
    /\ currentState # prevState => fanOut.invoked = fanOut.atStart
    /\ \A i, j \in 1..Len(fanOut.invoked) :
          i < j => fanOut.invoked[i] < fanOut.invoked[j]
    /\ Range(fanOut.invoked) \cap fanOut.goneAtStart = {}
    /\ Range(listeners) \cap unsubscribed = {}

\* listener 2 was unsubscribed before; during the pass of a state-changing
\* dispatch listener 1 unsubscribes listener 3, which is still invoked
C14_Witness ==
    /\ currentState # prevState
    /\ fanOut.goneAtStart = {2}
    /\ fanOut.atStart = <<1, 3>>
    /\ fanOut.invoked = <<1, 3>>
    /\ fanOut.during = {3}
    /\ listeners = <<1>>

\* C15: a dispatch issued while a reducer is running fails with the
\* invalid-operation error and is not applied: the snapshot afterwards is the
\* one before the outer dispatch or the result of the outer action alone.
C15_ReentrantDispatchRefused ==
    reentry.attempted =>
        /\ reentry.threw = InvalidOperation
        /\ \/ currentState = prevState
           \/ currentState = rootReducer(prevState, lastAction).state
        /\ thrown \in {"none", "TypeError", InvalidOperation}
        /\ thrown = InvalidOperation => currentState = prevState

\* the inner dispatch was refused and its error caught: the outer increment of
\* counter 2 alone is applied, the inner action on the other counter is not
C15_Witness ==
    /\ reentry.attempted
    /\ reentry.threw = InvalidOperation
    /\ thrown = "none"
    /\ lastAction.payload.id = 2
    /\ currentState.counters[2].value = prevState.counters[2].value + 1
    /\ currentState.counters[1].value = prevState.counters[1].value

\* C16: the counters region always holds the counters it started with, ids 1
\* and 2, once each and in that order, and a counter's value changes only by
\* an increment or decrement that targets its own id.
C16_CountersKeepIdentity ==
    /\ Len(currentState.counters) = Len(counterInitialState)
    /\ \A i \in 1..Len(counterInitialState) :
          /\ currentState.counters[i].id = counterInitialState[i].id
          /\ currentState.counters[i].value # prevState.counters[i].value =>
                /\ IsCounterAction(lastAction)
                /\ lastAction.payload.id = currentState.counters[i].id

C16_Witness ==
    /\ lastAction = [type |-> "counters/decrement", payload |-> [id |-> 2]]
    /\ prevState.counters = << [id |-> 1, value |-> 1], [id |-> 2, value |-> 0] >>
    /\ currentState.counters = << [id |-> 1, value |-> 1], [id |-> 2, value |-> -1] >>
    /\ Len(log) > 1

\* C17: processing the same fulfilled{X} twice in a row gives, the second
\* time, the region the first application gave, from every region state and
\* for every payload X.
C17_FulfilledIdempotent ==
    /\ \A X \in Payloads :
          LET action == fulfilled(X, 1)
              once == postReducer(currentState.posts, action).state
          IN  postReducer(once, action).state = once
    /\ (/\ lastAction.type = "posts/fetchPosts/fulfilled"
        /\ Len(log) >= 2
        /\ log[Len(log) - 1].type = "posts/fetchPosts/fulfilled"
        /\ log[Len(log) - 1].payload = lastAction.payload)
       => currentState.posts = prevState.posts

\* two invocations deliver the same non-empty list one after the other
C17_Witness ==
    /\ Len(log) = 4
    /\ log[3].type = "posts/fetchPosts/fulfilled"
    /\ lastAction = log[4]
    /\ lastAction.type = "posts/fetchPosts/fulfilled"
    /\ lastAction.payload = log[3].payload
    /\ lastAction.payload # << >>
    /\ currentState.posts = prevState.posts
    /\ postReducer(currentState.posts, lastAction).state = currentState.posts

\* C18: the total App displays is the sum of the values of the counters of
\* the snapshot, and after any increments and decrements issued through the
\* UI it is the number of increments minus the number of decrements,
\* whichever counters they targeted.
C18_TotalIsIncrementsMinusDecrements ==
    /\ totalCount(currentState.counters) =
           currentState.counters[1].value + currentState.counters[2].value
    /\ totalCount(currentState.counters) = clicks

\* an increment of counter 1 and a decrement of counter 2 cancel in the total
C18_Witness ==
    /\ currentState.counters[1].value = 1
    /\ currentState.counters[2].value = -1
    /\ clicks = 0
    /\ totalCount(currentState.counters) = 0
    /\ lastAction.type = "counters/decrement"

\* C19: every increment or decrement the UI dispatches carries the id of a
\* counter of the region at the time of the dispatch, so the lookup never
\* misses and no dispatch fails.
C19_UIDispatchesExistingIds ==
    /\ IsCounterAction(lastAction) =>
          /\ HasId(prevState.counters, lastAction.payload.id)
          /\ findIndex(prevState.counters, lastAction.payload.id) >= 0
    /\ thrown = "none"

C19_Witness ==
    /\ lastAction = [type |-> "counters/increment", payload |-> [id |-> 2]]
    /\ findIndex(prevState.counters, 2) = 1
    /\ thrown = "none"
    /\ prevState.counters[2].value = -1
    /\ currentState.counters[2].value = 0

\* C20: the posts list is the payload of the most recently processed
\* fulfilled action, or empty if there was none; pending, rejected, counter
\* and unknown actions never modify it.
C20_PostsIsLastFulfilledPayload ==
    /\ LET fs == SelectSeq(log, LAMBDA a : a.type = "posts/fetchPosts/fulfilled")
       IN  currentState.posts.posts =
               IF Len(fs) = 0 THEN << >> ELSE fs[Len(fs)].payload
    /\ lastAction.type # "posts/fetchPosts/fulfilled" =>
          currentState.posts.posts = prevState.posts.posts

\* a list fetched by the first invocation outlives the second invocation's
\* pending and rejected and an unknown action
C20_Witness ==
    /\ Len(log) = 4
    /\ log[2].type = "posts/fetchPosts/fulfilled"
    /\ log[2].payload # << >>
    /\ log[3].type = "posts/fetchPosts/pending"
    /\ log[4].type = "posts/fetchPosts/rejected"
    /\ lastAction.type = "posts/fetchPosts"
    /\ currentState.posts.posts = log[2].payload

\* C21: in every reachable state of the posts region isLoading and isError are
\* never both true, whatever the interleaving of the pending, fulfilled and
\* rejected actions of overlapping invocations.
C21_NeverLoadingAndError ==
    ~(currentState.posts.isLoading /\ currentState.posts.isError)

\* the region was loading for two invocations in flight when the first one's
\* rejected was processed, the second being still in flight
C21_Witness ==
    /\ Len(thunks) = 2
    /\ lastAction.type = "posts/fetchPosts/rejected"
    /\ lastAction.meta.requestId = 1
    /\ prevState.posts.isLoading
    /\ thunks[2].pc # "done"
    /\ currentState.posts.isError

Started(i) ==
    \E k \in 1..Len(log) : /\ log[k].type = "posts/fetchPosts/pending"
                           /\ log[k].meta.requestId = i
Completed(i) ==
    \E k \in 1..Len(log) : IsCompletion(log[k]) /\ log[k].meta.requestId = i

\* C22: given that every external fetch eventually succeeds or fails, every
\* fetchPosts invocation eventually dispatches its completion, and isLoading
\* is true only while some invocation has dispatched pending and not yet its
\* completion, so with no invocation in flight the region is not loading.
C22_NeverStuckLoading ==
    /\ [](currentState.posts.isLoading =>
             \E i \in 1..Len(thunks) : Started(i) /\ ~Completed(i))
    /\ \A i \in 1..MaxInvocations :
           [](Len(thunks) >= i => <>Completed(i))

\* two overlapping invocations have both completed, the second before the
\* first, and the region is no longer loading
C22_Witness ==
    /\ Len(log) = 4
    /\ log[1].type = "posts/fetchPosts/pending"
    /\ log[2].type = "posts/fetchPosts/pending"
    /\ IsCompletion(log[3]) /\ log[3].meta.requestId = 2
    /\ IsCompletion(log[4]) /\ log[4].meta.requestId = 1
    /\ lastAction = log[4]
    /\ prevState.posts.isLoading = FALSE
    /\ ~currentState.posts.isLoading

====
